---- MODULE Spec2Model ----
(***************************************************************************)
(* State-machine model of SS3SimpliCam (src/accessories/simplicam.js):     *)
(* the streaming-session supervisor (prepareStream, handleStreamRequest    *)
(* and the handlers of the spawned transcoder) and the real-time event     *)
(* subscription (startListening and its dispatch callback).                *)
(***************************************************************************)
EXTENDS Integers, Sequences, FiniteSets, TLC

\* ------------------------------------------------------------------------
\* Bounds
\* ------------------------------------------------------------------------
MaxStarts == 2          \* start requests that reach the address lookup
MaxErrorEvents == 1     \* 'error' events emitted by the transcoder processes
MaxStreams == 1         \* start requests in the life of one stream
MaxFailures == 3        \* cap of nSocketConnectFailures
MaxTimers == 2          \* timers pending, and subscription attempts in flight
MaxEvents == 3          \* invocations of the subscription callback
MaxSwitchEvents == 2    \* programmable-switch events
MaxSnapshots == 1       \* snapshot requests
MaxArgs == 2            \* arguments of an argument group
MaxOptions == 2         \* entries of an override map
MaxMerges == 2          \* merges of the same override map

\* Session identifiers of the viewers (UUIDGen.unparse(sessionID)).
SessionIds == {"A"}

\* Results of crypto.randomBytes(4) the model draws from: one result where
\* the SSRC plays no part, two where successive negotiations must be told apart.
OneRandomBytes == {<<129, 0, 0, 1>>}

RandomBytes == OneRandomBytes \cup {<<7, 0, 1, 0>>}

\* The results the specification of the negotiation draws from: every sign of
\* the first byte, and the extremes of the other three.
PrepareBytes ==
    RandomBytes \cup {<<0, 0, 0, 0>>, <<255, 255, 255, 255>>, <<128, 1, 0, 0>>,
                      <<127, 18, 52, 86>>, <<64, 0, 0, 2>>,
                      <<1, 2, 3, 4>>, <<200, 0, 0, 3>>, <<255, 0, 0, 255>>}

\* A prepare request: whether request.video and request.audio are present.
PrepareRequests == [video : BOOLEAN, audio : BOOLEAN]

\* The request of a viewer, which asks for both.
AudioVideo == [video |-> TRUE, audio |-> TRUE]

\* Exit codes handed to the 'close' handler: null (terminated by a signal),
\* the two codes the handler treats as a normal stop, and one other code
\* (a failed spawn closes with the negative errno, a crash with a positive code).
ExitCodes == {"null", "0", "255", "1"}

\* request.type: a request of any other type ('reconfigure') runs neither
\* branch of handleStreamRequest and calls nothing: it is a stuttering step.
RequestTypes == {"start", "stop"}

\* this.id, the camera's identifier, and another sensor's identifier.
CameraId == "cam"
OtherId == "other"

\* EVENT_TYPES: the three socket events, the two camera events the callback
\* handles, and one event type it has no case for.
EventTypes == {"CONNECTED", "DISCONNECT", "CONNECTION_LOST", "CAMERA_MOTION",
               "DOORBELL", "ALARM_TRIGGER"}

\* The callback's `data` argument: undefined, or an object with sensorSerial
\* and, optionally, internal.mainCamera (internal = "none": no internal).
NoData == [defined |-> FALSE, sensorSerial |-> "none", internal |-> "none"]

EventData ==
    {NoData} \cup [defined : {TRUE}, sensorSerial : {CameraId, OtherId},
                  internal : {"none", CameraId, OtherId}]

\* Outcomes of `await this.simplisafe.subscribeToEvents(...)`.
SubscribeOutcomes == {"resolved", "RateLimitError", "Error"}

\* cameraDetails.model: the model with a privacy shutter and one without.
CameraModels == {"SS001", "SS002"}

\* Values `await this.simplisafe.getAlarmState()` resolves to: the three states
\* the privacy gate has a case for, and one it has none for.
AlarmStates == {"OFF", "HOME", "AWAY", "ALARM"}

\* cameraDetails.cameraSettings: the three shutter settings.
ShutterValues == {"open", "closed", "closedAlarmOnly"}

CameraSettings ==
    [shutterOff : ShutterValues, shutterHome : ShutterValues,
     shutterAway : ShutterValues]

\* Flags and values of the transcoder's arguments and of the overrides.
MergeFlags == {"-f", "-r"}
MergeValues == {"rtp", "30"}

\* The boolean false as an override value (every other value is a string).
False == "<false>"

Arguments == {<<flag>> : flag \in MergeFlags} \cup (MergeFlags \X MergeValues)

\* sourceArgs, videoArgs, audioArgs
GroupKinds == {"source", "video", "audio"}

\* The services whose characteristic getState is registered for.
StateServices == {"MotionSensor", "Doorbell"}

\* SOCKET_RETRY_INTERVAL (ms), imported from ../simplisafe.
SOCKET_RETRY_INTERVAL == 1000

\* Delay (ms) of the timer that clears the motion flag.
MotionTimeout == 5000

VARIABLES
    pendingSessions,   \* this.pendingSessions: session identifier -> sessionInfo
    ongoingSessions,   \* this.ongoingSessions: session identifier -> process
    serverIpAddress,   \* this.serverIpAddress: "undefined" or "ip"
    requests,          \* the start requests that reached `await dnsLookup`
    lastCall,          \* the handleStreamRequest call of the last step, when it
                       \* returned at once (NoCall after any other step)
    procs,             \* every process spawned, with the state of its handlers
    nSocketConnectFailures,  \* this.nSocketConnectFailures
    subscribing,       \* startListening calls suspended at `await subscribeToEvents`
    timers,            \* the setTimeout timers that have not fired yet
    accessory,         \* this.accessory: "undefined", or the kind of accessory set
    motionIsTriggered, \* this.motionIsTriggered
    MotionDetected,    \* value of the MotionSensor's MotionDetected characteristic
    switchEvents,      \* ProgrammableSwitchEvent.setValue(0) calls so far
    nDispatched,       \* invocations of the subscription callback so far
    rlDelays,          \* delays of the retries scheduled on RateLimitError since
                       \* the last CONNECTED event
    lastOutcome,       \* how the last `await subscribeToEvents` settled
                       \* ("none" before the first)
    snapshots,         \* every snapshot request, with the position of its handler
    mergeKind,         \* the argument group the overrides are merged into
    mergeOptions,      \* the override map
    mergeResults       \* the group, and the group after each merge of the map

streamVars == <<pendingSessions, ongoingSessions, serverIpAddress, requests,
                lastCall, procs>>

eventVars == <<nSocketConnectFailures, subscribing, timers, accessory,
               motionIsTriggered, MotionDetected, switchEvents, nDispatched,
               rlDelays, lastOutcome>>

snapVars == <<snapshots>>

mergeVars == <<mergeKind, mergeOptions, mergeResults>>

vars == <<streamVars, eventVars, snapVars, mergeVars>>

\* ------------------------------------------------------------------------
\* Object-as-map helpers (JavaScript property write and `delete`)
\* ------------------------------------------------------------------------
Put(map, key, value) ==
    [k \in DOMAIN map \cup {key} |-> IF k = key THEN value ELSE map[k]]

Delete(map, key) ==
    [k \in DOMAIN map \ {key} |-> map[k]]

EmptyMap == [k \in {} |-> 0]

\* ------------------------------------------------------------------------
\* Requests and their completion callbacks
\* ------------------------------------------------------------------------
NewRequest(type, sid) ==
    [type |-> type, sid |-> sid, pc |-> "returned", path |-> "none",
     cbOk |-> 0, cbErr |-> 0, proc |-> 0, threw |-> FALSE,
     sessionInfo |-> EmptyMap]

NoCall == NewRequest("none", "none")

\* The callback of a request is invoked once more, with or without an error.
Callback(req, err) ==
    IF err THEN [req EXCEPT !.cbErr = @ + 1]
           ELSE [req EXCEPT !.cbOk = @ + 1]

\* ------------------------------------------------------------------------
\* Initial state: the fields the constructor sets; its call of startListening
\* is suspended at `await subscribeToEvents`.
\* ------------------------------------------------------------------------
Constructed ==
    /\ pendingSessions = EmptyMap
    /\ ongoingSessions = EmptyMap
    /\ serverIpAddress = "undefined"
    /\ requests = <<>>
    /\ lastCall = NoCall
    /\ procs = <<>>
    /\ nSocketConnectFailures = 0
    /\ subscribing = 1
    /\ timers = <<>>
    /\ accessory = "undefined"
    /\ motionIsTriggered = FALSE
    /\ MotionDetected = FALSE
    /\ switchEvents = 0
    /\ nDispatched = 0
    /\ rlDelays = <<>>
    /\ lastOutcome = "none"
    /\ snapshots = <<>>

\* No override is configured: the groups stay as they are built.
Init ==
    /\ Constructed
    /\ mergeKind = "source"
    /\ mergeOptions = <<>>
    /\ mergeResults = <<>>

\* ------------------------------------------------------------------------
\* prepareStream
\* ------------------------------------------------------------------------
\* Buffer.readInt32BE(0) of a 4-byte buffer: two's complement, big-endian.
readInt32BE(b) ==
    LET hi == IF b[1] >= 128 THEN b[1] - 256 ELSE b[1]
    IN hi * 16777216 + b[2] * 65536 + b[3] * 256 + b[4]

\* The SSRC read from the random bytes as they are.
SsrcUnmasked(bytes) == readInt32BE(bytes)

\* ssrcSource[0] = 0; ssrcSource.readInt32BE(0, true)
Ssrc(bytes) == readInt32BE([bytes EXCEPT ![1] = 0])

\* The media a prepare request asks for.
Media(request) ==
    (IF request.video THEN {"video"} ELSE {}) \cup
    (IF request.audio THEN {"audio"} ELSE {})

\* `let ssrc` of each medium asked for.
MediaSsrc(request, videoBytes, audioBytes) ==
    [m \in Media(request) |->
        Ssrc(IF m = "video" THEN videoBytes ELSE audioBytes)]

\* response.video, response.audio: the ssrc handed to the callback.
PrepareResponse(request, videoBytes, audioBytes) ==
    [m \in Media(request) |->
        [ssrc |-> MediaSsrc(request, videoBytes, audioBytes)[m]]]

\* sessionInfo.video_ssrc, sessionInfo.audio_ssrc
SessionInfo(request, videoBytes, audioBytes) ==
    [f \in {m \o "_ssrc" : m \in Media(request)} |->
        MediaSsrc(request, videoBytes, audioBytes)[
            IF f = "video_ssrc" THEN "video" ELSE "audio"]]

prepareStream(sid, request, videoBytes, audioBytes) ==
    /\ pendingSessions' = Put(pendingSessions, sid,
           SessionInfo(request, videoBytes, audioBytes))
    /\ lastCall' = NoCall
    /\ UNCHANGED <<ongoingSessions, serverIpAddress, requests, procs>>
    /\ UNCHANGED <<eventVars, snapVars, mergeVars>>

\* ------------------------------------------------------------------------
\* handleStreamRequest
\* ------------------------------------------------------------------------
\* StartStream without the `if (sessionInfo)` guard: a start for an identifier
\* with no PendingSession goes on to the address lookup and the spawn.
StartStreamUnguarded(sid, blocked) ==
    /\ IF blocked
       THEN /\ pendingSessions' = Delete(pendingSessions, sid)
            /\ lastCall' = Callback(
                   [NewRequest("start", sid) EXCEPT !.path = "blocked"], TRUE)
            /\ UNCHANGED requests
       ELSE /\ Len(requests) < MaxStarts
            /\ requests' = Append(requests,
                   [NewRequest("start", sid) EXCEPT !.pc = "dnsLookup"])
            /\ lastCall' = NoCall
            /\ UNCHANGED pendingSessions
    /\ UNCHANGED <<ongoingSessions, serverIpAddress, procs>>
    /\ UNCHANGED <<eventVars, snapVars, mergeVars>>

\* type == 'start', up to the suspension at `await dnsLookup(...)`.
StartStream(sid, blocked) ==
    /\ IF blocked
       THEN /\ pendingSessions' = Delete(pendingSessions, sid)
            /\ lastCall' = Callback(
                   [NewRequest("start", sid) EXCEPT !.path = "blocked"], TRUE)
            /\ UNCHANGED requests
       ELSE IF sid \in DOMAIN pendingSessions
       THEN /\ Len(requests) < MaxStarts
            /\ requests' = Append(requests,
                   [NewRequest("start", sid) EXCEPT !.pc = "dnsLookup",
                        !.sessionInfo = pendingSessions[sid]])
            /\ lastCall' = NoCall
            /\ UNCHANGED pendingSessions
       ELSE /\ pendingSessions' = Delete(pendingSessions, sid)
            /\ lastCall' = [NewRequest("start", sid) EXCEPT !.path = "nopending"]
            /\ UNCHANGED requests
    /\ UNCHANGED <<ongoingSessions, serverIpAddress, procs>>
    /\ UNCHANGED <<eventVars, snapVars, mergeVars>>

\* StopStream with the delete and the callback inside the try block: a throwing
\* kill skips the delete and reports the error.
StopStreamInsideTry(sid, threw) ==
    LET hasCmd == sid \in DOMAIN ongoingSessions
        cmd == IF hasCmd THEN ongoingSessions[sid] ELSE 0
        failed == hasCmd /\ threw
    IN
    /\ procs' = IF hasCmd
                THEN [procs EXCEPT ![cmd].signals = Append(@, "SIGKILL")]
                ELSE procs
    /\ ongoingSessions' = IF failed THEN ongoingSessions
                          ELSE Delete(ongoingSessions, sid)
    /\ lastCall' = Callback(
           [NewRequest("stop", sid) EXCEPT !.path = "stop", !.proc = cmd,
                !.threw = failed], failed)
    /\ UNCHANGED <<pendingSessions, serverIpAddress, requests>>
    /\ UNCHANGED <<eventVars, snapVars, mergeVars>>

\* type == 'stop'; threw: cmd.kill('SIGKILL') throws.
StopStream(sid, threw) ==
    LET hasCmd == sid \in DOMAIN ongoingSessions
        cmd == IF hasCmd THEN ongoingSessions[sid] ELSE 0
    IN
    /\ procs' = IF hasCmd
                THEN [procs EXCEPT ![cmd].signals = Append(@, "SIGKILL")]
                ELSE procs
    /\ ongoingSessions' = Delete(ongoingSessions, sid)
    /\ lastCall' = Callback(
           [NewRequest("stop", sid) EXCEPT !.path = "stop", !.proc = cmd,
                !.threw = hasCmd /\ threw], FALSE)
    /\ UNCHANGED <<pendingSessions, serverIpAddress, requests>>
    /\ UNCHANGED <<eventVars, snapVars, mergeVars>>

handleStreamRequest(type, sid, blocked, threw) ==
    CASE type = "start" -> StartStream(sid, blocked)
      [] type = "stop" -> StopStream(sid, threw)

\* The rest of the 'start' branch, resumed when dnsLookup settles.
NewProc(sid, r) ==
    [sid |-> sid, req |-> r, started |-> FALSE, closed |-> FALSE,
     signals |-> <<>>, nError |-> 0, forceStops |-> 0]

Closed(p) == procs[p].closed

dnsLookupSettled(r, resolved) ==
    /\ r \in 1..Len(requests)
    /\ requests[r].pc = "dnsLookup"
    /\ LET sid == requests[r].sid
           fatal == ~resolved /\ serverIpAddress = "undefined"
       IN
       /\ serverIpAddress' = IF resolved THEN "ip" ELSE serverIpAddress
       /\ pendingSessions' = Delete(pendingSessions, sid)
       /\ IF fatal
          THEN /\ requests' = [requests EXCEPT ![r] = Callback(
                      [@ EXCEPT !.pc = "returned", !.path = "dnsfail"], TRUE)]
               /\ UNCHANGED <<procs, ongoingSessions>>
          ELSE /\ procs' = Append(procs, NewProc(sid, r))
               /\ ongoingSessions' = Put(ongoingSessions, sid, Len(procs) + 1)
               /\ requests' = [requests EXCEPT ![r].pc = "returned",
                                   ![r].path = "spawned", ![r].proc = Len(procs) + 1]
    /\ lastCall' = NoCall
    /\ UNCHANGED <<eventVars, snapVars, mergeVars>>

\* ------------------------------------------------------------------------
\* Handlers of the spawned transcoder
\* ------------------------------------------------------------------------
\* A 'data' handler without the `started` latch: every chunk calls back.
stderrDataEveryChunk(p) ==
    /\ p \in 1..Len(procs)
    /\ ~Closed(p)
    /\ procs' = [procs EXCEPT ![p].started = TRUE]
    /\ requests' = [requests EXCEPT ![procs[p].req] = Callback(@, FALSE)]
    /\ lastCall' = NoCall
    /\ UNCHANGED <<pendingSessions, ongoingSessions, serverIpAddress>>
    /\ UNCHANGED <<eventVars, snapVars, mergeVars>>

\* cmd.stderr.on('data', ...)
stderrData(p) ==
    /\ p \in 1..Len(procs)
    /\ ~Closed(p)
    /\ procs' = [procs EXCEPT ![p].started = TRUE]
    /\ requests' = IF procs[p].started THEN requests
                   ELSE [requests EXCEPT ![procs[p].req] = Callback(@, FALSE)]
    /\ lastCall' = NoCall
    /\ UNCHANGED <<pendingSessions, ongoingSessions, serverIpAddress>>
    /\ UNCHANGED <<eventVars, snapVars, mergeVars>>

\* cmd.on('error', ...)
RECURSIVE ErrorEvents(_)
ErrorEvents(n) == IF n = 0 THEN 0 ELSE procs[n].nError + ErrorEvents(n - 1)

cmdError(p) ==
    /\ p \in 1..Len(procs)
    /\ ~Closed(p)
    /\ ErrorEvents(Len(procs)) < MaxErrorEvents
    /\ procs' = [procs EXCEPT ![p].nError = @ + 1]
    /\ requests' = [requests EXCEPT ![procs[p].req] = Callback(@, TRUE)]
    /\ lastCall' = NoCall
    /\ UNCHANGED <<pendingSessions, ongoingSessions, serverIpAddress>>
    /\ UNCHANGED <<eventVars, snapVars, mergeVars>>

\* cmd.on('close', ...)
\* A switch without `case 255`.
NormalStopWithout255(code) == code \in {"null", "0"}

NormalStop(code) == code \in {"null", "0", "255"}

cmdClose(p, code) ==
    /\ p \in 1..Len(procs)
    /\ ~Closed(p)
    /\ procs' = [procs EXCEPT ![p].closed = TRUE,
                     ![p].forceStops = IF ~NormalStop(code) /\ procs[p].started
                                       THEN @ + 1 ELSE @]
    /\ requests' = IF ~NormalStop(code) /\ ~procs[p].started
                   THEN [requests EXCEPT ![procs[p].req] = Callback(@, TRUE)]
                   ELSE requests
    /\ lastCall' = NoCall
    /\ UNCHANGED <<pendingSessions, ongoingSessions, serverIpAddress>>
    /\ UNCHANGED <<eventVars, snapVars, mergeVars>>

\* ------------------------------------------------------------------------
\* Specification of the streaming supervisor
\* ------------------------------------------------------------------------
Next ==
    \/ \E sid \in SessionIds, bytes \in OneRandomBytes :
           prepareStream(sid, AudioVideo, bytes, bytes)
    \/ \E sid \in SessionIds, blocked \in BOOLEAN :
           handleStreamRequest("start", sid, blocked, FALSE)
    \/ \E sid \in SessionIds, threw \in BOOLEAN :
           handleStreamRequest("stop", sid, FALSE, threw)
    \/ \E r \in 1..MaxStarts, resolved \in BOOLEAN : dnsLookupSettled(r, resolved)
    \/ \E p \in 1..MaxStarts : stderrData(p)
    \/ \E p \in 1..MaxStarts : cmdError(p)
    \/ \E p \in 1..MaxStarts, code \in ExitCodes : cmdClose(p, code)

Spec == Init /\ [][Next]_vars

\* The life of one stream: as above, where no start request arrives once
\* MaxStreams of them have reached the address lookup.
NextStream ==
    \/ \E sid \in SessionIds, bytes \in RandomBytes :
           prepareStream(sid, AudioVideo, bytes, bytes)
    \/ \E sid \in SessionIds, blocked \in BOOLEAN :
           /\ Len(requests) < MaxStreams
           /\ handleStreamRequest("start", sid, blocked, FALSE)
    \/ \E sid \in SessionIds, threw \in BOOLEAN :
           handleStreamRequest("stop", sid, FALSE, threw)
    \/ \E r \in 1..MaxStreams, resolved \in BOOLEAN : dnsLookupSettled(r, resolved)
    \/ \E p \in 1..MaxStreams : stderrData(p)
    \/ \E p \in 1..MaxStreams : cmdError(p)
    \/ \E p \in 1..MaxStreams, code \in ExitCodes : cmdClose(p, code)

SpecStream == Init /\ [][NextStream]_vars

TypeOK ==
    /\ DOMAIN pendingSessions \subseteq SessionIds
    /\ DOMAIN ongoingSessions \subseteq SessionIds
    /\ \A s \in DOMAIN ongoingSessions : ongoingSessions[s] \in 1..Len(procs)
    /\ serverIpAddress \in {"undefined", "ip"}
    /\ Len(requests) <= MaxStarts
    /\ Len(procs) <= Len(requests)
    /\ lastCall.type \in RequestTypes \cup {"none", "getState"}
    /\ Len(snapshots) <= MaxSnapshots

\* ------------------------------------------------------------------------
\* setAccessory
\* ------------------------------------------------------------------------
\* kind: "doorbell" when the accessory has a Doorbell service, else "camera".
setAccessory(kind) ==
    /\ accessory = "undefined"
    /\ accessory' = kind
    /\ UNCHANGED <<nSocketConnectFailures, subscribing, timers, motionIsTriggered,
                   MotionDetected, switchEvents, nDispatched, rlDelays,
                   lastOutcome>>
    /\ UNCHANGED <<streamVars, snapVars, mergeVars>>

\* ------------------------------------------------------------------------
\* startListening
\* ------------------------------------------------------------------------
RECURSIVE Pow2(_)
Pow2(n) == IF n = 0 THEN 1 ELSE 2 * Pow2(n - 1)

\* A backoff that grows by one base interval per failure.
RetryIntervalLinear(n) == (n + 1) * SOCKET_RETRY_INTERVAL

\* (2 ** this.nSocketConnectFailures) * SOCKET_RETRY_INTERVAL
RetryInterval(n) == Pow2(n) * SOCKET_RETRY_INTERVAL

Timer(kind, delay) == [kind |-> kind, delay |-> delay]

\* The delays of the retry timers that a step added at the end of `timers`.
RetriesAdded(before, after) ==
    [i \in 1..(Len(after) - Len(before)) |-> after[Len(before) + i].delay]

\* `await subscribeToEvents(...)` settles; the catch block runs on a rejection.
subscribeSettled(outcome) ==
    /\ subscribing > 0
    /\ subscribing' = subscribing - 1
    /\ lastOutcome' = outcome
    /\ IF outcome = "RateLimitError"
       THEN /\ nSocketConnectFailures < MaxFailures
            /\ Len(timers) < MaxTimers
            /\ timers' = Append(timers,
                   Timer("retry", RetryInterval(nSocketConnectFailures)))
            /\ nSocketConnectFailures' = nSocketConnectFailures + 1
            /\ rlDelays' = rlDelays \o RetriesAdded(timers, timers')
       ELSE UNCHANGED <<timers, nSocketConnectFailures, rlDelays>>
    /\ UNCHANGED <<accessory, motionIsTriggered, MotionDetected, switchEvents,
                   nDispatched>>
    /\ UNCHANGED <<streamVars, snapVars, mergeVars>>

\* The identifiers the callback compares with this.id, ignoring data.internal.
eventCameraIdsSerialOnly(data) == {data.sensorSerial}

\* eventCameraIds = [data.sensorSerial] (+ data.internal.mainCamera)
eventCameraIds(data) ==
    {data.sensorSerial} \cup (IF data.internal # "none" THEN {data.internal} ELSE {})

\* this.accessory && data && eventCameraIds.indexOf(this.id) > -1
CameraEvent(data) ==
    accessory # "undefined" /\ data.defined /\ CameraId \in eventCameraIds(data)

\* The callback where a lost connection is retried with the backoff of the
\* rate limit.
subscribeCallbackBackoff(event, data) ==
    LET motion == event = "CAMERA_MOTION" /\ CameraEvent(data)
        \* getService(Doorbell) is undefined on an accessory without the
        \* service: the call on it throws and nothing is set.
        ring == event = "DOORBELL" /\ CameraEvent(data) /\ accessory = "doorbell"
    IN
    /\ nDispatched < MaxEvents
    /\ nDispatched' = nDispatched + 1
    /\ nSocketConnectFailures' =
           IF event = "CONNECTED" THEN 0 ELSE nSocketConnectFailures
    /\ rlDelays' = IF event = "CONNECTED" THEN <<>> ELSE rlDelays
    /\ IF event = "CONNECTION_LOST"
       THEN /\ Len(timers) < MaxTimers
            /\ timers' = Append(timers,
                   Timer("retry", RetryInterval(nSocketConnectFailures)))
       ELSE IF motion
       THEN /\ Len(timers) < MaxTimers
            /\ timers' = Append(timers, Timer("motion", MotionTimeout))
       ELSE timers' = timers
    /\ MotionDetected' = (motion \/ MotionDetected)
    /\ motionIsTriggered' = (motion \/ motionIsTriggered)
    /\ IF ring
       THEN /\ switchEvents < MaxSwitchEvents
            /\ switchEvents' = switchEvents + 1
       ELSE switchEvents' = switchEvents
    /\ UNCHANGED <<subscribing, accessory, lastOutcome>>
    /\ UNCHANGED <<streamVars, snapVars, mergeVars>>

\* The callback given to subscribeToEvents, invoked with (event, data).
subscribeCallback(event, data) ==
    LET motion == event = "CAMERA_MOTION" /\ CameraEvent(data)
        \* getService(Doorbell) is undefined on an accessory without the
        \* service: the call on it throws and nothing is set.
        ring == event = "DOORBELL" /\ CameraEvent(data) /\ accessory = "doorbell"
    IN
    /\ nDispatched < MaxEvents
    /\ nDispatched' = nDispatched + 1
    /\ nSocketConnectFailures' =
           IF event = "CONNECTED" THEN 0 ELSE nSocketConnectFailures
    /\ rlDelays' = IF event = "CONNECTED" THEN <<>> ELSE rlDelays
    /\ IF event = "CONNECTION_LOST"
       THEN /\ Len(timers) < MaxTimers
            /\ timers' = Append(timers, Timer("retry", SOCKET_RETRY_INTERVAL))
       ELSE IF motion
       THEN /\ Len(timers) < MaxTimers
            /\ timers' = Append(timers, Timer("motion", MotionTimeout))
       ELSE timers' = timers
    /\ MotionDetected' = (motion \/ MotionDetected)
    /\ motionIsTriggered' = (motion \/ motionIsTriggered)
    /\ IF ring
       THEN /\ switchEvents < MaxSwitchEvents
            /\ switchEvents' = switchEvents + 1
       ELSE switchEvents' = switchEvents
    /\ UNCHANGED <<subscribing, accessory, lastOutcome>>
    /\ UNCHANGED <<streamVars, snapVars, mergeVars>>

RemoveAt(seq, i) == SubSeq(seq, 1, i - 1) \o SubSeq(seq, i + 1, Len(seq))

\* A motion timer that resets the MotionDetected characteristic and leaves
\* this.motionIsTriggered set.
timerFiredStateOnly(i) ==
    /\ i \in 1..Len(timers)
    /\ timers' = RemoveAt(timers, i)
    /\ IF timers[i].kind = "retry"
       THEN /\ subscribing < MaxTimers
            /\ subscribing' = subscribing + 1
            /\ UNCHANGED <<MotionDetected, motionIsTriggered>>
       ELSE /\ MotionDetected' = FALSE
            /\ UNCHANGED <<motionIsTriggered, subscribing>>
    /\ UNCHANGED <<nSocketConnectFailures, accessory, switchEvents, nDispatched,
                   rlDelays, lastOutcome>>
    /\ UNCHANGED <<streamVars, snapVars, mergeVars>>

\* A setTimeout callback runs: a retry calls startListening again, the motion
\* timer clears the motion state and the motion flag.
timerFired(i) ==
    /\ i \in 1..Len(timers)
    /\ timers' = RemoveAt(timers, i)
    /\ IF timers[i].kind = "retry"
       THEN /\ subscribing < MaxTimers
            /\ subscribing' = subscribing + 1
            /\ UNCHANGED <<MotionDetected, motionIsTriggered>>
       ELSE /\ MotionDetected' = FALSE
            /\ motionIsTriggered' = FALSE
            /\ UNCHANGED subscribing
    /\ UNCHANGED <<nSocketConnectFailures, accessory, switchEvents, nDispatched,
                   rlDelays, lastOutcome>>
    /\ UNCHANGED <<streamVars, snapVars, mergeVars>>

\* ------------------------------------------------------------------------
\* Specification of the event subscription
\* ------------------------------------------------------------------------
NextEvents ==
    \/ \E kind \in {"camera", "doorbell"} : setAccessory(kind)
    \/ \E outcome \in SubscribeOutcomes : subscribeSettled(outcome)
    \/ \E event \in EventTypes, data \in EventData : subscribeCallback(event, data)
    \/ \E i \in 1..MaxTimers : timerFired(i)

SpecEvents == Init /\ [][NextEvents]_vars

\* The callback of a pending motion timer runs.
MotionTimerFires ==
    \E i \in 1..MaxTimers :
        /\ i \in 1..Len(timers)
        /\ timers[i].kind = "motion"
        /\ timerFired(i)

\* The event loop runs the callback of every timer that stays pending.
SpecEventsFair == SpecEvents /\ WF_vars(MotionTimerFires)

\* The callback of a pending retry timer runs and calls startListening.
RetryTimerFires ==
    \E i \in 1..MaxTimers :
        /\ i \in 1..Len(timers)
        /\ timers[i].kind = "retry"
        /\ timerFired(i)

\* Every timer that stays pending fires, whatever it was set for.
SpecListenFair ==
    SpecEvents /\ WF_vars(MotionTimerFires) /\ WF_vars(RetryTimerFires)

\* ------------------------------------------------------------------------
\* getState
\* ------------------------------------------------------------------------
\* A state query that answers without looking at the rate-limit state.
getStateUnchecked(service, blocked) ==
    /\ accessory # "undefined"
    /\ service = "Doorbell" => accessory = "doorbell"
    /\ lastCall' = Callback(
           [NewRequest("getState", service) EXCEPT !.path = "value"], FALSE)
    /\ UNCHANGED <<pendingSessions, ongoingSessions, serverIpAddress, requests,
                   procs>>
    /\ UNCHANGED <<eventVars, snapVars, mergeVars>>

\* The 'get' handler setAccessory registers for the MotionDetected and the
\* ProgrammableSwitchEvent characteristics. The record keeps the service in the
\* field `sid`.
getState(service, blocked) ==
    /\ accessory # "undefined"
    /\ service = "Doorbell" => accessory = "doorbell"
    /\ lastCall' = Callback(
           [NewRequest("getState", service) EXCEPT
                !.path = IF blocked THEN "blocked" ELSE "value"], blocked)
    /\ UNCHANGED <<pendingSessions, ongoingSessions, serverIpAddress, requests,
                   procs>>
    /\ UNCHANGED <<eventVars, snapVars, mergeVars>>

\* ------------------------------------------------------------------------
\* handleSnapshotRequest
\* ------------------------------------------------------------------------
\* A snapshot request: the inputs its handler read when it was called, where
\* the handler stands, how often its callback was invoked with an image and
\* with an error, and the calls it has issued.
NewSnapshot(blocked, model) ==
    [model |-> model, motion |-> motionIsTriggered,
     pc |-> "returned", path |-> "none", cbImg |-> 0, cbErr |-> 0,
     queries |-> 0, lookups |-> 0, fetches |-> 0]

\* The privacy gate that queries the alarm state of every model.
QueriesAlarmStateAnyModel(model) == ~motionIsTriggered

\* !this.motionIsTriggered && this.cameraDetails.model == 'SS001'
QueriesAlarmState(model) == ~motionIsTriggered /\ model = "SS001"

\* Up to the first await.
handleSnapshotRequest(blocked, model) ==
    /\ Len(snapshots) < MaxSnapshots
    /\ snapshots' = Append(snapshots,
           IF blocked
           THEN [NewSnapshot(blocked, model) EXCEPT
                     !.path = "blocked", !.cbErr = 1]
           ELSE IF QueriesAlarmState(model)
           THEN [NewSnapshot(blocked, model) EXCEPT
                     !.pc = "getAlarmState", !.queries = 1]
           ELSE [NewSnapshot(blocked, model) EXCEPT
                     !.pc = "dnsLookup", !.lookups = 1])
    /\ lastCall' = NoCall
    /\ UNCHANGED <<pendingSessions, ongoingSessions, serverIpAddress, requests,
                   procs>>
    /\ UNCHANGED <<eventVars, mergeVars>>

\* A gate that reads shutterAway in the HOME case.
ShutterSettingAwayForHome(settings, alarmState) ==
    CASE alarmState = "OFF" -> settings.shutterOff
      [] alarmState = "HOME" -> settings.shutterAway
      [] alarmState = "AWAY" -> settings.shutterAway
      [] OTHER -> "open"

\* The setting the switch compares with 'open' (no case: nothing is compared).
ShutterSetting(settings, alarmState) ==
    CASE alarmState = "OFF" -> settings.shutterOff
      [] alarmState = "HOME" -> settings.shutterHome
      [] alarmState = "AWAY" -> settings.shutterAway
      [] OTHER -> "open"

\* `await this.simplisafe.getAlarmState()` settles. No try block encloses it: on
\* a rejection the promise of handleSnapshotRequest rejects and nothing else
\* runs.
getAlarmStateSettled(s, outcome, settings) ==
    /\ s \in 1..Len(snapshots)
    /\ snapshots[s].pc = "getAlarmState"
    /\ snapshots' = [snapshots EXCEPT ![s] =
           IF outcome = "rejected"
           THEN [@ EXCEPT !.pc = "rejected", !.path = "queryfail"]
           ELSE IF ShutterSetting(settings, outcome) # "open"
           THEN [@ EXCEPT !.pc = "returned", !.path = "privacy",
                          !.cbErr = @ + 1]
           ELSE [@ EXCEPT !.pc = "dnsLookup", !.lookups = @ + 1]]
    /\ lastCall' = NoCall
    /\ UNCHANGED <<pendingSessions, ongoingSessions, serverIpAddress, requests,
                   procs>>
    /\ UNCHANGED <<eventVars, mergeVars>>

\* `await dnsLookup(...)` settles. The catch block only logs: the handler goes
\* on to build the url from this.serverIpAddress and calls jpegExtract.
snapshotLookupSettled(s, resolved) ==
    /\ s \in 1..Len(snapshots)
    /\ snapshots[s].pc = "dnsLookup"
    /\ serverIpAddress' = IF resolved THEN "ip" ELSE serverIpAddress
    /\ snapshots' = [snapshots EXCEPT ![s] =
           [@ EXCEPT !.pc = "jpegExtract", !.fetches = @ + 1,
                     !.path = IF resolved THEN "resolved"
                              ELSE IF serverIpAddress = "undefined" THEN "nohost"
                              ELSE "cached"]]
    /\ lastCall' = NoCall
    /\ UNCHANGED <<pendingSessions, ongoingSessions, requests, procs>>
    /\ UNCHANGED <<eventVars, mergeVars>>

\* The promise of jpegExtract settles; a fetch from the url built with an
\* undefined address yields no image.
jpegExtractSettled(s, ok) ==
    /\ s \in 1..Len(snapshots)
    /\ snapshots[s].pc = "jpegExtract"
    /\ ok => snapshots[s].path # "nohost"
    /\ snapshots' = [snapshots EXCEPT ![s] =
           IF ok THEN [@ EXCEPT !.pc = "returned", !.cbImg = @ + 1]
                 ELSE [@ EXCEPT !.pc = "returned", !.cbErr = @ + 1]]
    /\ lastCall' = NoCall
    /\ UNCHANGED <<pendingSessions, ongoingSessions, serverIpAddress, requests,
                   procs>>
    /\ UNCHANGED <<eventVars, mergeVars>>

\* ------------------------------------------------------------------------
\* Specification of the snapshot requests, with the motion events and timers
\* that move the motion flag
\* ------------------------------------------------------------------------
NextSnapshots ==
    \/ \E blocked \in BOOLEAN, model \in CameraModels :
           handleSnapshotRequest(blocked, model)
    \/ \E s \in 1..MaxSnapshots, outcome \in AlarmStates \cup {"rejected"},
          settings \in CameraSettings : getAlarmStateSettled(s, outcome, settings)
    \/ \E s \in 1..MaxSnapshots, resolved \in BOOLEAN :
           snapshotLookupSettled(s, resolved)
    \/ \E s \in 1..MaxSnapshots, ok \in BOOLEAN : jpegExtractSettled(s, ok)
    \/ \E kind \in {"camera", "doorbell"} : setAccessory(kind)
    \/ \E data \in EventData : subscribeCallback("CAMERA_MOTION", data)
    \/ \E i \in 1..MaxTimers : timerFired(i)

SpecSnapshots == Init /\ [][NextSnapshots]_vars

\* ------------------------------------------------------------------------
\* Specification of the operations that check the rate-limit state of the
\* cloud client: snapshot requests, state queries and stream starts up to
\* their address lookup (Spec takes the starts from there)
\* ------------------------------------------------------------------------
NextRequests ==
    \/ \E blocked \in BOOLEAN, model \in CameraModels :
           handleSnapshotRequest(blocked, model)
    \/ \E s \in 1..MaxSnapshots, outcome \in AlarmStates \cup {"rejected"},
          settings \in CameraSettings : getAlarmStateSettled(s, outcome, settings)
    \/ \E s \in 1..MaxSnapshots, resolved \in BOOLEAN :
           snapshotLookupSettled(s, resolved)
    \/ \E s \in 1..MaxSnapshots, ok \in BOOLEAN : jpegExtractSettled(s, ok)
    \/ \E kind \in {"camera", "doorbell"} : setAccessory(kind)
    \/ \E service \in StateServices, blocked \in BOOLEAN : getState(service, blocked)
    \/ \E sid \in SessionIds, bytes \in OneRandomBytes :
           prepareStream(sid, AudioVideo, bytes, bytes)
    \/ \E sid \in SessionIds, blocked \in BOOLEAN :
           handleStreamRequest("start", sid, blocked, FALSE)

SpecRequests == Init /\ [][NextRequests]_vars

\* ------------------------------------------------------------------------
\* Specification of the negotiation: prepares of every kind, and the starts
\* that arrive while the privacy shutter blocks the camera
\* ------------------------------------------------------------------------
NextPrepare ==
    \/ \E sid \in SessionIds, request \in PrepareRequests,
          videoBytes \in PrepareBytes, audioBytes \in PrepareBytes :
           prepareStream(sid, request, videoBytes, audioBytes)
    \/ \E sid \in SessionIds : handleStreamRequest("start", sid, TRUE, FALSE)

SpecPrepare == Init /\ [][NextPrepare]_vars

\* ------------------------------------------------------------------------
\* handleStreamRequest: merge of the configured overrides into an argument
\* group
\* ------------------------------------------------------------------------
\* An argument is the array [flag] or [flag, value]; a group is an array of
\* arguments; an override map is the sequence of its entries <<key, value>> in
\* the order `for (let key in options)` visits them.
\* sourceArgs.find(arg => arg[0] === key): index of the first match, or 0.
RECURSIVE FindArg(_, _, _)
FindArg(args, key, i) ==
    IF i > Len(args) THEN 0
    ELSE IF args[i][1] = key THEN i
    ELSE FindArg(args, key, i + 1)

\* args.filter(arg => arg[0] !== key)
FilterOut(args, key) ==
    LET Keep(arg) == arg[1] # key IN SelectSeq(args, Keep)

\* existingArg[1] = value
SetValue(arg, value) ==
    IF Len(arg) = 1 THEN Append(arg, value) ELSE [arg EXCEPT ![2] = value]

\* The body of the for loop, for one entry of the override map.
MergeOption(args, key, value, kind) ==
    LET existingArg == FindArg(args, key, 1) IN
    IF existingArg # 0
    THEN IF value = False
         THEN FilterOut(args, key)
         ELSE [args EXCEPT ![existingArg] = SetValue(@, value)]
    ELSE IF kind = "source"
         THEN <<<<key, value>>>> \o args
         ELSE Append(args, <<key, value>>)

\* The for loop over the override map.
RECURSIVE MergeOptions(_, _, _)
MergeOptions(args, options, kind) ==
    IF options = <<>> THEN args
    ELSE MergeOptions(MergeOption(args, Head(options)[1], Head(options)[2], kind),
                      Tail(options), kind)

\* The override map is merged into the group the last merge produced.
mergeOverrides ==
    /\ Len(mergeResults) <= MaxMerges
    /\ mergeResults' = Append(mergeResults,
           MergeOptions(mergeResults[Len(mergeResults)], mergeOptions, mergeKind))
    /\ UNCHANGED <<mergeKind, mergeOptions>>
    /\ UNCHANGED <<streamVars, eventVars, snapVars>>

\* ------------------------------------------------------------------------
\* Specification of the override merge: a group, an override map and the kind
\* of group are drawn, and the map is merged into the group time after time
\* ------------------------------------------------------------------------
ArgGroups == UNION {[1..n -> Arguments] : n \in 0..MaxArgs}

OverrideMaps ==
    {options \in UNION {[1..n -> MergeFlags \X (MergeValues \cup {False})] :
                            n \in 0..MaxOptions} :
        \A i, j \in 1..Len(options) : options[i][1] = options[j][1] => i = j}

InitMerge ==
    /\ Constructed
    /\ mergeKind \in GroupKinds
    /\ mergeOptions \in OverrideMaps
    /\ \E args \in ArgGroups : mergeResults = <<args>>

NextMerge == mergeOverrides

SpecMerge == InitMerge /\ [][NextMerge]_vars

\* ------------------------------------------------------------------------
\* Claims about the streaming supervisor
\* ------------------------------------------------------------------------
ProcIds == 1..Len(procs)

\* A process is live while it has not closed and no kill has been issued to it.
Live(p) == ~procs[p].closed /\ procs[p].signals = <<>>

\* The handling of a request is over: the handler has returned and the process
\* it spawned, if any, has closed, so no handler that could call back remains.
Over(req) ==
    /\ req.pc = "returned"
    /\ req.proc # 0 /\ req.type = "start" => procs[req.proc].closed

\* C1: no session identifier is a key of pendingSessions and of
\* ongoingSessions at the same time.
C1_PendingXorOngoing ==
    \A sid \in SessionIds :
        ~(sid \in DOMAIN pendingSessions /\ sid \in DOMAIN ongoingSessions)

\* C2: at most one live transcoder process per session identifier, and every
\* live process is the one its ongoingSessions entry refers to (none is leaked
\* by a second start).
C2_NoLeakedProcess ==
    \A p \in ProcIds :
        Live(p) =>
            /\ procs[p].sid \in DOMAIN ongoingSessions
            /\ ongoingSessions[procs[p].sid] = p
            /\ \A q \in ProcIds : Live(q) /\ procs[q].sid = procs[p].sid => q = p

\* C3: the completion callback of a start request is invoked at most once.
C3_StartCallbackAtMostOnce ==
    /\ \A r \in 1..Len(requests) : requests[r].cbOk + requests[r].cbErr <= 1
    /\ lastCall.type = "start" => lastCall.cbOk + lastCall.cbErr <= 1

\* C4: every start request and every stop request has its completion callback
\* invoked at least once: once its handling is over, the callback has run.
C4_CallbackAtLeastOnce ==
    /\ \A r \in 1..Len(requests) :
           Over(requests[r]) => requests[r].cbOk + requests[r].cbErr >= 1
    /\ lastCall.type \in {"start", "stop"} => lastCall.cbOk + lastCall.cbErr >= 1

\* C5: an 'error' event of the spawned process invokes the start callback with
\* an error and leaves no ongoingSessions entry for the session identifier.
C5_SpawnErrorLeavesNoSession ==
    [][\A p \in ProcIds :
          cmdError(p) =>
              /\ requests'[procs[p].req].cbErr = requests[procs[p].req].cbErr + 1
              /\ procs[p].sid \notin DOMAIN ongoingSessions']_vars

\* C6: ongoingSessions holds an entry only while its process is running:
\* no entry refers to a process that has closed.
C6_OngoingOnlyWhileRunning ==
    \A sid \in DOMAIN ongoingSessions : ~procs[ongoingSessions[sid]].closed

\* A step that handled a stop (a start) request and returned at once.
StopStep(sid) == lastCall'.type = "stop" /\ lastCall'.sid = sid

StartReturnedStep(sid) == lastCall'.type = "start" /\ lastCall'.sid = sid

\* A step that suspended a start request at the address lookup.
StartSuspendedStep(sid) ==
    /\ Len(requests') = Len(requests) + 1
    /\ requests'[Len(requests')].sid = sid

\* C7: a stop for an identifier with an OngoingSession issues SIGKILL to that
\* session's process, removes the entry and invokes the callback once, without
\* an error, whether or not the kill call throws.
C7_StopKillsRemovesAndCallsBack ==
    [][\A sid \in SessionIds :
          sid \in DOMAIN ongoingSessions /\ StopStep(sid) =>
              /\ procs'[ongoingSessions[sid]].signals =
                     Append(procs[ongoingSessions[sid]].signals, "SIGKILL")
              /\ sid \notin DOMAIN ongoingSessions'
              /\ lastCall'.cbOk = 1 /\ lastCall'.cbErr = 0]_vars

\* C7 witness: a stop whose kill call threw has acted on a registered process.
C7_Witness ==
    /\ lastCall.type = "stop" /\ lastCall.proc # 0 /\ lastCall.threw
    /\ procs[lastCall.proc].signals = <<"SIGKILL">>
    /\ lastCall.sid \notin DOMAIN ongoingSessions
    /\ lastCall.cbOk = 1 /\ lastCall.cbErr = 0

\* C8: a stop for an identifier with no OngoingSession issues no signal,
\* reports no error and changes neither map; a start for an identifier with no
\* PendingSession returns at once, spawns no process and changes neither map.
C8_UnknownIdentifierNoOp ==
    [][\A sid \in SessionIds :
          /\ sid \notin DOMAIN ongoingSessions /\ StopStep(sid) =>
                 /\ procs' = procs
                 /\ pendingSessions' = pendingSessions
                 /\ ongoingSessions' = ongoingSessions
                 /\ lastCall'.cbErr = 0
          /\ sid \notin DOMAIN pendingSessions =>
                 /\ ~StartSuspendedStep(sid)
                 /\ StartReturnedStep(sid) =>
                        /\ procs' = procs
                        /\ requests' = requests
                        /\ pendingSessions' = pendingSessions
                        /\ ongoingSessions' = ongoingSessions]_vars

\* C8 witness: a stop for an identifier with no OngoingSession has acted while
\* a PendingSession exists, and both maps are as they were.
C8_Witness ==
    /\ lastCall.type = "stop" /\ lastCall.proc = 0
    /\ lastCall.sid \in DOMAIN pendingSessions
    /\ lastCall.sid \notin DOMAIN ongoingSessions
    /\ lastCall.cbOk = 1 /\ lastCall.cbErr = 0

\* ------------------------------------------------------------------------
\* Claims about the event subscription
\* ------------------------------------------------------------------------
\* C9: the k-th subscription attempt in a row that fails with RateLimitError
\* (counted from the last CONNECTED event, k = 0, 1, 2, ...) schedules exactly
\* one retry, after SOCKET_RETRY_INTERVAL * 2^k, and nSocketConnectFailures
\* counts these failures; a CONNECTED event sets it to 0.
C9_ExponentialBackoff ==
    /\ nSocketConnectFailures = Len(rlDelays)
    /\ \A k \in 0..(Len(rlDelays) - 1) :
           rlDelays[k + 1] = SOCKET_RETRY_INTERVAL * 2^k

\* C9 witness: three failures in a row were given the delays base, 2*base and
\* 4*base, and the third retry is pending.
C9_Witness ==
    /\ rlDelays = <<SOCKET_RETRY_INTERVAL, 2 * SOCKET_RETRY_INTERVAL,
                    4 * SOCKET_RETRY_INTERVAL>>
    /\ nSocketConnectFailures = 3
    /\ timers = <<Timer("retry", 4 * SOCKET_RETRY_INTERVAL)>>

\* The camera's identifier is the event's sensorSerial or its
\* internal.mainCamera.
NamesCamera(data) ==
    data.defined /\ (data.sensorSerial = CameraId \/ data.internal = CameraId)

MotionUnchanged ==
    motionIsTriggered' = motionIsTriggered /\ MotionDetected' = MotionDetected

MotionOn == motionIsTriggered /\ MotionDetected

MotionOff == ~motionIsTriggered /\ ~MotionDetected

\* The motion timer clears both, and whenever one of them is set both are
\* clear again later.
MotionTimerClears ==
    /\ [][MotionTimerFires => MotionOff']_vars
    /\ (motionIsTriggered \/ MotionDetected) ~> MotionOff

\* C11 as stated: every CAMERA_MOTION event that names the camera sets
\* motionIsTriggered and MotionDetected and starts the 5-second timer; when
\* the timer fires both are false, and both eventually return to false.
C11_EveryMotionEventSetsMotion ==
    /\ [][\A data \in EventData :
            subscribeCallback("CAMERA_MOTION", data) /\ NamesCamera(data) =>
                /\ MotionOn'
                /\ timers' = Append(timers, Timer("motion", MotionTimeout))]_vars
    /\ MotionTimerClears

\* C11 amended: as above, for the CAMERA_MOTION events dispatched once
\* setAccessory has attached the accessory.
C11_MotionEventSetsMotionOnceAttached ==
    /\ [][\A data \in EventData :
            subscribeCallback("CAMERA_MOTION", data)
              /\ NamesCamera(data) /\ accessory # "undefined" =>
                /\ MotionOn'
                /\ timers' = Append(timers, Timer("motion", MotionTimeout))]_vars
    /\ MotionTimerClears

\* C11 witness: one event was dispatched, a CAMERA_MOTION event that set both
\* and left its timer pending.
C11_Witness ==
    /\ accessory # "undefined"
    /\ nDispatched = 1
    /\ MotionOn
    /\ timers = <<Timer("motion", MotionTimeout)>>

\* C19: of the stderr chunks of a transcoder only the first invokes the start
\* callback, with success, and a later chunk invokes no callback: however many
\* chunks have arrived, the start request of a process has had no success
\* callback before the first chunk and exactly one from then on.
C19_FirstChunkOnlyCallsBack ==
    \A p \in ProcIds :
        requests[procs[p].req].cbOk = IF procs[p].started THEN 1 ELSE 0

\* C19 witness: a running transcoder has written to stderr and its start
\* request has had its one success callback and no error.
C19_Witness ==
    \E p \in ProcIds :
        /\ procs[p].started /\ ~procs[p].closed
        /\ requests[procs[p].req].cbOk = 1
        /\ requests[procs[p].req].cbErr = 0

\* The exit codes 0, 255 and null (no code).
NormalExit(code) == code = "0" \/ code = "255" \/ code = "null"

\* C20: on exit, code 0, 255 or null invokes no callback and no forced
\* teardown, before or after readiness; any other code before readiness
\* invokes the start callback with an error and no forced teardown; any other
\* code after readiness calls forceStopStreamingSession once and invokes no
\* callback.
C20_ExitCodes ==
    [][\A p \in ProcIds :
          ~procs[p].closed /\ procs'[p].closed =>
              \A code \in ExitCodes :
                  cmdClose(p, code) =>
                      LET r == procs[p].req
                          teardowns == procs'[p].forceStops - procs[p].forceStops
                      IN
                      IF NormalExit(code)
                      THEN requests' = requests /\ teardowns = 0
                      ELSE IF ~procs[p].started
                      THEN /\ requests' = [requests EXCEPT ![r].cbErr = @ + 1]
                           /\ teardowns = 0
                      ELSE requests' = requests /\ teardowns = 1]_vars

\* C20 witness: a transcoder that was ready exited with a failure code, which
\* tore the session down and left the callback count at the one success.
C20_Witness ==
    \E p \in ProcIds :
        /\ procs[p].closed /\ procs[p].started /\ procs[p].forceStops = 1
        /\ requests[procs[p].req].cbOk = 1
        /\ requests[procs[p].req].cbErr = 0

\* ------------------------------------------------------------------------
\* Claims about the snapshot requests and the rate-limit check
\* ------------------------------------------------------------------------
SnapshotIds == 1..Len(snapshots)

\* The setting that belongs to an alarm state.
MatchingSetting(settings, alarmState) ==
    IF alarmState = "OFF" THEN settings.shutterOff
    ELSE IF alarmState = "HOME" THEN settings.shutterHome
    ELSE settings.shutterAway

\* The request completed with one error and issued neither lookup nor fetch.
FailedBeforeNetwork(snapshot) ==
    /\ snapshot.pc = "returned"
    /\ snapshot.cbErr = 1 /\ snapshot.cbImg = 0
    /\ snapshot.lookups = 0 /\ snapshot.fetches = 0

\* C12: on the shutter model with no motion flag set, a snapshot request whose
\* alarm state is OFF, HOME or AWAY and whose matching shutter setting is not
\* 'open' completes with the privacy-shutter error and issues neither an
\* address lookup nor an image fetch.
C12_PrivacyShutterBlocks ==
    /\ [][\A s \in 1..MaxSnapshots, alarmState \in {"OFF", "HOME", "AWAY"},
            settings \in CameraSettings :
              /\ getAlarmStateSettled(s, alarmState, settings)
              /\ MatchingSetting(settings, alarmState) # "open"
              => snapshots'[s].path = "privacy"]_vars
    /\ [](\A s \in SnapshotIds :
              snapshots[s].path = "privacy" =>
                  /\ FailedBeforeNetwork(snapshots[s])
                  /\ snapshots[s].model = "SS001" /\ ~snapshots[s].motion)

\* C12 witness: a request on the shutter model was refused by the gate.
C12_Witness ==
    \E s \in SnapshotIds :
        /\ snapshots[s].path = "privacy" /\ snapshots[s].model = "SS001"
        /\ snapshots[s].queries = 1 /\ snapshots[s].cbErr = 1
        /\ snapshots[s].lookups = 0

\* C13: a snapshot request queries the alarm state exactly when it is not
\* rate-limited, the model is SS001 and motionIsTriggered is not set at the
\* time of the request; no query is issued later on.
C13_AlarmStateQueriedIff ==
    /\ [][\A blocked \in BOOLEAN, model \in CameraModels :
              handleSnapshotRequest(blocked, model) =>
                  snapshots'[Len(snapshots')].queries =
                      IF ~blocked /\ model = "SS001" /\ ~motionIsTriggered
                      THEN 1 ELSE 0]_vars
    /\ [][\A s \in SnapshotIds :
              snapshots'[s].queries = snapshots[s].queries]_vars

\* C13 witness: a request on the shutter model made while the motion flag was
\* set went to the address lookup without a query.
C13_Witness ==
    \E s \in SnapshotIds :
        /\ snapshots[s].model = "SS001" /\ snapshots[s].motion
        /\ snapshots[s].queries = 0 /\ snapshots[s].lookups = 1

\* C14: a snapshot request whose address lookup failed while no address was
\* cached issues no image fetch (as a stream start in the same case spawns no
\* process).
C14_LookupFailureWithoutCacheFails ==
    \A s \in SnapshotIds :
        snapshots[s].path = "nohost" => snapshots[s].fetches = 0

\* C15: while the cloud client is blocked, a snapshot request, a stream start
\* and a state query each complete with the rate-limited error and issue no
\* alarm-state query, address lookup, image fetch or spawn; the blocked start
\* removes the PendingSession of its identifier.
C15_BlockedFailsFast ==
    /\ [][\A model \in CameraModels :
              handleSnapshotRequest(TRUE, model) =>
                  /\ snapshots'[Len(snapshots')].path = "blocked"
                  /\ requests' = requests /\ procs' = procs]_vars
    /\ [](\A s \in SnapshotIds :
              snapshots[s].path = "blocked" =>
                  FailedBeforeNetwork(snapshots[s]) /\ snapshots[s].queries = 0)
    /\ [][\A sid \in SessionIds :
              handleStreamRequest("start", sid, TRUE, FALSE) =>
                  /\ lastCall'.cbErr = 1 /\ lastCall'.cbOk = 0
                  /\ sid \notin DOMAIN pendingSessions'
                  /\ requests' = requests /\ procs' = procs
                  /\ snapshots' = snapshots]_vars
    /\ [][\A service \in StateServices :
              getState(service, TRUE) =>
                  /\ lastCall'.cbErr = 1 /\ lastCall'.cbOk = 0
                  /\ requests' = requests /\ procs' = procs
                  /\ snapshots' = snapshots]_vars

\* C15 witness: a blocked snapshot request failed, and a blocked start has just
\* failed and left no PendingSession.
C15_Witness ==
    /\ Len(snapshots) = 1 /\ snapshots[1].path = "blocked"
    /\ snapshots[1].cbErr = 1
    /\ lastCall.type = "start" /\ lastCall.path = "blocked"
    /\ lastCall.cbErr = 1
    /\ lastCall.sid \notin DOMAIN pendingSessions

\* C16: every snapshot request whose handling is over has had its callback
\* invoked exactly once, with an image or with an error.
C16_SnapshotCallbackExactlyOnce ==
    \A s \in SnapshotIds :
        snapshots[s].pc \in {"returned", "rejected"} =>
            snapshots[s].cbImg + snapshots[s].cbErr = 1

\* ------------------------------------------------------------------------
\* Claims about the override merge and the SSRC
\* ------------------------------------------------------------------------
\* C17: merging an override map into an argument group twice yields the same
\* group as merging it once.
C17_MergeIdempotent ==
    Len(mergeResults) >= 3 => mergeResults[3] = mergeResults[2]

\* The big-endian value of the four bytes 0, bytes[2], bytes[3], bytes[4].
ZeroFirstValue(bytes) == bytes[2] * 65536 + bytes[3] * 256 + bytes[4]

InSsrcRange(ssrc) == 0 <= ssrc /\ ssrc < 16777216

\* C18: for every prepare request and every medium it asks for, the SSRC stored
\* in the PendingSession is the big-endian value of the random bytes with the
\* first byte set to zero, it lies in 0 .. 0x00FFFFFF, and the SSRC of the
\* response equals it.
C18_SsrcZeroFirstByte ==
    /\ [][\A sid \in SessionIds, request \in PrepareRequests,
            videoBytes \in PrepareBytes, audioBytes \in PrepareBytes :
              prepareStream(sid, request, videoBytes, audioBytes) =>
                  LET info == pendingSessions'[sid]
                      response == PrepareResponse(request, videoBytes, audioBytes)
                  IN
                  /\ DOMAIN response = Media(request)
                  /\ request.video =>
                         /\ info.video_ssrc = ZeroFirstValue(videoBytes)
                         /\ response.video.ssrc = info.video_ssrc
                  /\ request.audio =>
                         /\ info.audio_ssrc = ZeroFirstValue(audioBytes)
                         /\ response.audio.ssrc = info.audio_ssrc]_vars
    /\ [](\A sid \in DOMAIN pendingSessions :
              \A f \in DOMAIN pendingSessions[sid] :
                  InSsrcRange(pendingSessions[sid][f]))

\* C18 witness: a prepare for video and audio drew a first byte with the sign
\* bit set for the video and four bytes 255 for the audio.
C18_Witness ==
    /\ "A" \in DOMAIN pendingSessions
    /\ DOMAIN pendingSessions["A"] = {"video_ssrc", "audio_ssrc"}
    /\ pendingSessions["A"].video_ssrc = 1
    /\ pendingSessions["A"].audio_ssrc = 16777215

\* C21: a CONNECTION_LOST event adds one retry timer of exactly
\* SOCKET_RETRY_INTERVAL, whatever nSocketConnectFailures is, and leaves the
\* counter and every other field as they are; a DISCONNECT event adds no timer,
\* starts no subscription attempt and changes no field (only the count of
\* dispatched events, which is bookkeeping of the model, moves).
C21_LostRetriesAtBaseInterval ==
    [][/\ \A data \in EventData :
              subscribeCallback("CONNECTION_LOST", data) =>
                  /\ timers' = Append(timers,
                         Timer("retry", SOCKET_RETRY_INTERVAL))
                  /\ UNCHANGED <<nSocketConnectFailures, subscribing, accessory,
                                 motionIsTriggered, MotionDetected,
                                 switchEvents, rlDelays, lastOutcome>>
       /\ \A data \in EventData :
              subscribeCallback("DISCONNECT", data) =>
                  /\ UNCHANGED <<nSocketConnectFailures, subscribing, timers,
                                 accessory, motionIsTriggered, MotionDetected,
                                 switchEvents, rlDelays, lastOutcome>>
                  /\ UNCHANGED <<streamVars, snapVars>>]_vars

\* Two rate-limited attempts were backed off (1 s, then 2 s) and no CONNECTED
\* event came since; the timer behind the 2 s one was added by a
\* CONNECTION_LOST event that found the counter at 2.
C21_Witness ==
    /\ nSocketConnectFailures = 2
    /\ rlDelays = <<SOCKET_RETRY_INTERVAL, 2 * SOCKET_RETRY_INTERVAL>>
    /\ timers = <<Timer("retry", 2 * SOCKET_RETRY_INTERVAL),
                  Timer("retry", SOCKET_RETRY_INTERVAL)>>
    /\ nDispatched >= 1

\* C22: once a stop request for an identifier has completed, and as long as no
\* prepare follows, no transcoder of that identifier runs unsignalled and none
\* is registered in ongoingSessions. It is stated for the step that follows the
\* stop at once (lastCall still holds the stop, so that no prepare and no other
\* call came in between): in the state the stop leaves no process of the
\* identifier is live, and the next step, whichever it is, leaves the
\* identifier out of ongoingSessions. The resumption of a start that was
\* suspended at the address lookup is such a step.
C22_NoStreamAfterStop ==
    /\ [](lastCall.type = "stop" =>
              \A p \in ProcIds : procs[p].sid = lastCall.sid => ~Live(p))
    /\ [][lastCall.type = "stop" =>
              lastCall.sid \notin DOMAIN ongoingSessions']_vars

\* C23: a start request that resumes from the address lookup never removes a
\* PendingSession written by a prepare that came after the start was issued.
\* A suspended start holds the PendingSession it read (its `sessionInfo`); an
\* entry that differs from it when the start resumes was written by a later
\* prepare, and the resuming step must leave it in place.
C23_ResumedStartKeepsLaterPrepare ==
    [][\A r \in 1..Len(requests) :
           LET sid == requests[r].sid IN
           (/\ requests[r].pc = "dnsLookup"
            /\ requests'[r].pc # "dnsLookup"
            /\ sid \in DOMAIN pendingSessions
            /\ pendingSessions[sid] # requests[r].sessionInfo)
           => (/\ sid \in DOMAIN pendingSessions'
               /\ pendingSessions'[sid] = pendingSessions[sid])]_vars

\* C24: motionIsTriggered and MotionDetected are true at every moment less than
\* 5 seconds after the most recent relevant CAMERA_MOTION event. Each such
\* event starts one 5-second timer, and timers of equal delay fire in the order
\* they were started: while a motion timer is pending, the timer of the most
\* recent event has not fired, so less than 5 seconds have passed since that
\* event and both must be true.
C24_MotionHeldWhileTimerPending ==
    (\E i \in 1..Len(timers) : timers[i].kind = "motion") => MotionOn

\* The last subscription attempt that settled was rejected.
LastAttemptFailed == lastOutcome \in {"RateLimitError", "Error"}

\* C25: the subscription is never abandoned: after a subscription attempt is
\* rejected, with a RateLimitError or with any other error, another attempt is
\* eventually made (startListening is again waiting on subscribeToEvents).
C25_FailureLeadsToAttempt == LastAttemptFailed ~> (subscribing > 0)

\* The same for the rejections with a RateLimitError alone.
RateLimitLeadsToAttempt ==
    (lastOutcome = "RateLimitError") ~> (subscribing > 0)
====
